---- MODULE Spec2Model ----
(***************************************************************************)
(* Model of the schwab-historical-data-parser report generator:            *)
(*   main.py                       the one-pass workflow                   *)
(*   schwab_analysis/data.py       get_historical_data                     *)
(*   schwab_analysis/analysis.py   calculate_metrics,                      *)
(*                                 generate_summary_statistics             *)
(*   schwab_analysis/visualization.py  plot_performance                    *)
(*                                                                         *)
(* Numbers.  A float cell is modelled as an exact rational <<n, d>> in     *)
(* lowest terms with d > 0; the IEEE specials that pandas produces are the *)
(* pairs with d = 0:  <<0,0>> is NaN, <<1,0>> is +inf, <<-1,0>> is -inf.   *)
(* Rounding error of binary floating point is not modelled.                *)
(*                                                                         *)
(* Rows.  Row t of the program (0-based) is element t+1 of a column here.  *)
(***************************************************************************)
EXTENDS Integers, Sequences, FiniteSets, TLC

(* ---------------------------- bounds ---------------------------------- *)
\* longest exhaustively enumerated candle list
MaxLen == 3
\* closes are drawn from 1..MaxPrice
MaxPrice == 3
\* a long candle list repeats a pattern of PatLen closes, each the lowest
\* or the highest price
PatLen == 3
\* resolution of a timestamp: ticks per calendar day
TicksPerDay == 2

(* ----------------------- program constants ---------------------------- *)
MA_20 == 20
MA_50 == 50
MA_200 == 200
VOL_WINDOW == 20
RSI_WINDOW == 14
DAYS_PER_YEAR == 365

(* ------------------------ float arithmetic ---------------------------- *)
NaN == <<0, 0>>
PosInf == <<1, 0>>
NegInf == <<0 - 1, 0>>

Abs(a) == IF a < 0 THEN 0 - a ELSE a

RECURSIVE GCD(_, _)
GCD(a, b) == IF b = 0 THEN a ELSE GCD(b, a % b)

Sign(a) == IF a > 0 THEN 1 ELSE IF a < 0 THEN 0 - 1 ELSE 0

\* the float n/d; d = 0 gives the IEEE result of a division by zero
Frac(n, d) ==
    IF d = 0 THEN <<Sign(n), 0>>
    ELSE LET g == GCD(Abs(n), Abs(d))
             s == Sign(d)
         IN  <<(s * n) \div g, (s * d) \div g>>

Num(k) == <<k, 1>>
IsNaN(x) == x = NaN
IsFinite(x) == x[2] # 0
IsInf(x) == x[2] = 0 /\ x[1] # 0

FNeg(x) == <<0 - x[1], x[2]>>

FAdd(x, y) ==
    IF IsNaN(x) \/ IsNaN(y) THEN NaN
    ELSE IF IsInf(x) /\ IsInf(y) THEN (IF x = y THEN x ELSE NaN)
    ELSE IF IsInf(x) THEN x
    ELSE IF IsInf(y) THEN y
    ELSE Frac(x[1] * y[2] + y[1] * x[2], x[2] * y[2])

FSub(x, y) == FAdd(x, FNeg(y))

FMul(x, y) ==
    IF IsNaN(x) \/ IsNaN(y) THEN NaN
    ELSE IF IsInf(x) \/ IsInf(y)
         THEN <<Sign(x[1]) * Sign(y[1]), 0>>
    ELSE Frac(x[1] * y[1], x[2] * y[2])

FDiv(x, y) ==
    IF IsNaN(x) \/ IsNaN(y) THEN NaN
    ELSE IF IsInf(x) THEN (IF IsInf(y) THEN NaN
                           ELSE IF y[1] < 0 THEN FNeg(x) ELSE x)
    ELSE IF IsInf(y) THEN Num(0)
    ELSE Frac(x[1] * y[2], x[2] * y[1])

\* comparisons with NaN are False, as in IEEE
FLt(x, y) ==
    /\ ~IsNaN(x) /\ ~IsNaN(y)
    /\ x # y
    /\ IF IsInf(x) THEN x = NegInf
       ELSE IF IsInf(y) THEN y = PosInf
       ELSE x[1] * y[2] < y[1] * x[2]

FGt(x, y) == FLt(y, x)
FLe(x, y) == ~IsNaN(x) /\ ~IsNaN(y) /\ ~FLt(y, x)

(* ---------------------- pandas Series methods ------------------------- *)
Rows(s) == 1..Len(s)

\* Series.pct_change(): s[t] / s[t-1] - 1, NaN in row 0
pct_change(s) ==
    [t \in Rows(s) |-> IF t = 1 THEN NaN
                       ELSE FSub(FDiv(s[t], s[t - 1]), Num(1))]

\* Series.diff(): s[t] - s[t-1], NaN in row 0
diff(s) ==
    [t \in Rows(s) |-> IF t = 1 THEN NaN ELSE FSub(s[t], s[t - 1])]

\* Series.cumprod(), skipna=True: a NaN cell stays NaN and is left out of
\* the running product.  Rows lo..hi, by halves, from the product `acc` of
\* the defined cells before lo: `out` is the cells of these rows and `acc`
\* the product after them.
RECURSIVE CumProdRange(_, _, _, _)
CumProdRange(s, lo, hi, acc) ==
    IF lo = hi
    THEN IF IsNaN(s[lo]) THEN [out |-> <<NaN>>, acc |-> acc]
         ELSE [out |-> <<FMul(acc, s[lo])>>, acc |-> FMul(acc, s[lo])]
    ELSE LET mid == (lo + hi) \div 2
             left == CumProdRange(s, lo, mid, acc)
             right == CumProdRange(s, mid + 1, hi, left.acc)
         IN  [out |-> left.out \o right.out, acc |-> right.acc]

\* a bug: cumprod(skipna=False), where the NaN of row 0 spreads to every row
cumprod_propagating(s) ==
    [t \in Rows(s) |->
        IF \E u \in 1..t : IsNaN(s[u]) THEN NaN
        ELSE CumProdRange(s, 1, t, Num(1)).acc]

cumprod(s) ==
    IF Len(s) = 0 THEN <<>> ELSE CumProdRange(s, 1, Len(s), Num(1)).out

\* Series.cummax(), skipna=True, in the same way; `acc` is the greatest
\* defined cell so far, NaN when there is none
RECURSIVE CumMaxRange(_, _, _, _)
CumMaxRange(s, lo, hi, acc) ==
    IF lo = hi
    THEN IF IsNaN(s[lo]) THEN [out |-> <<NaN>>, acc |-> acc]
         ELSE LET a == IF IsNaN(acc) \/ FGt(s[lo], acc) THEN s[lo] ELSE acc
              IN  [out |-> <<a>>, acc |-> a]
    ELSE LET mid == (lo + hi) \div 2
             left == CumMaxRange(s, lo, mid, acc)
             right == CumMaxRange(s, mid + 1, hi, left.acc)
         IN  [out |-> left.out \o right.out, acc |-> right.acc]

\* a bug: the running minimum in place of the running maximum
cummin(s) ==
    [t \in Rows(s) |->
        s[CHOOSE u \in 1..t : \A v \in 1..t : FLe(s[u], s[v])]]

cummax(s) ==
    IF Len(s) = 0 THEN <<>> ELSE CumMaxRange(s, 1, Len(s), NaN).out

\* the sum of rows lo..hi, by halves
RECURSIVE SumRange(_, _, _)
SumRange(s, lo, hi) ==
    IF lo > hi THEN Num(0)
    ELSE IF lo = hi THEN s[lo]
    ELSE LET mid == (lo + hi) \div 2
         IN  FAdd(SumRange(s, lo, mid), SumRange(s, mid + 1, hi))

\* a bug: rolling(window, min_periods=1), the mean of the rows there are
rolling_mean_min_periods_1(s, window) ==
    [t \in Rows(s) |->
        LET lo == IF t < window THEN 1 ELSE t - window + 1
        IN  FDiv(SumRange(s, lo, t), Num(t - lo + 1))]

\* Series.rolling(window).mean(): min_periods defaults to the window, so a
\* row with fewer than `window` rows behind it, or with a NaN in its
\* window, is NaN
rolling_mean(s, window) ==
    [t \in Rows(s) |->
        IF t < window THEN NaN
        ELSE FDiv(SumRange(s, t - window + 1, t), Num(window))]

\* Series.rolling(window).std(): the value is a square root, which the
\* model does not carry; the cell is TRUE when it is defined, that is when
\* the window holds `window` values none of which is NaN
rolling_std_defined(s, window) ==
    [t \in Rows(s) |->
        /\ t >= window
        /\ \A u \in (t - window + 1)..t : ~IsNaN(s[u])]

\* element-wise arithmetic with a scalar or another Series
SMulK(s, k) == [t \in Rows(s) |-> FMul(s[t], k)]
SDivK(s, k) == [t \in Rows(s) |-> FDiv(s[t], k)]
SAddK(s, k) == [t \in Rows(s) |-> FAdd(s[t], k)]
SDiv(a, b) == [t \in Rows(a) |-> FDiv(a[t], b[t])]

SNeg(a) == [t \in Rows(a) |-> FNeg(a[t])]
KSub(k, s) == [t \in Rows(s) |-> FSub(k, s[t])]
KDiv(k, s) == [t \in Rows(s) |-> FDiv(k, s[t])]

\* Series.where(cond, other): keeps the cell where cond is True and puts
\* `other` elsewhere; cond is a comparison, so it is False on a NaN cell
where_gt0(s, other) ==
    [t \in Rows(s) |-> IF FGt(s[t], Num(0)) THEN s[t] ELSE other]

where_lt0(s, other) ==
    [t \in Rows(s) |-> IF FLt(s[t], Num(0)) THEN s[t] ELSE other]

(* --------------------------- DataFrame -------------------------------- *)
\* A DataFrame is a record: `columns` (the column names in order), `index`
\* (one timestamp, in ticks, per row) and one field per column.
HasColumn(df, name) == \E i \in 1..Len(df.columns) : df.columns[i] = name

\* df[name] = values: a new column is appended, an existing one replaced
SetCol(df, name, values) ==
    [f \in (DOMAIN df) \cup {name} |->
        IF f = name THEN values
        ELSE IF f = "columns"
             THEN (IF HasColumn(df, name) THEN df.columns
                   ELSE Append(df.columns, name))
        ELSE df[f]]

Return(v) == [ok |-> TRUE, value |-> v]
Raise(e) == [ok |-> FALSE, error |-> e]

(* ----------------------- analysis.calculate_metrics ------------------- *)
Delta(result) == diff(result.close)
\* a bug: the first delta zeroed but the negative ones kept as gains
GainUnclamped(result) ==
    [t \in Rows(result.close) |->
        IF IsNaN(Delta(result)[t]) THEN Num(0) ELSE Delta(result)[t]]

Gain(result) == where_gt0(Delta(result), Num(0))
Loss(result) == SNeg(where_lt0(Delta(result), Num(0)))
AvgGain(result) == rolling_mean(Gain(result), RSI_WINDOW)
AvgLoss(result) == rolling_mean(Loss(result), RSI_WINDOW)
Rs(result) == SDiv(AvgGain(result), AvgLoss(result))
Rsi(result) == KSub(Num(100), KDiv(Num(100), SAddK(Rs(result), Num(1))))

\* the columns calculate_metrics adds, in the order of its assignments
DerivedColumns ==
    <<"daily_return", "cumulative_return", "cumulative_return_pct",
      "ma_20", "ma_50", "ma_200", "volatility", "upper_band", "lower_band",
      "peak", "drawdown", "rsi">>

\* upper_band and lower_band are ma_20 plus or minus a multiple of the
\* volatility: like it, the model carries them as defined or not
BandDefined(result) ==
    [t \in Rows(result.ma_20) |->
        ~IsNaN(result.ma_20[t]) /\ result.volatility[t]]

\* the right-hand side of the assignment to result[name], lines 23-54
ColumnValue(name, result) ==
    CASE name = "daily_return" ->
           SMulK(pct_change(result.close), Num(100))
      [] name = "cumulative_return" ->
           SAddK(cumprod(SAddK(SDivK(result.daily_return, Num(100)),
                               Num(1))),
                 Num(0 - 1))
      [] name = "cumulative_return_pct" ->
           SMulK(result.cumulative_return, Num(100))
      [] name = "ma_20" -> rolling_mean(result.close, MA_20)
      [] name = "ma_50" -> rolling_mean(result.close, MA_50)
      [] name = "ma_200" -> rolling_mean(result.close, MA_200)
      [] name = "volatility" ->
           rolling_std_defined(result.daily_return, VOL_WINDOW)
      [] name = "upper_band" -> BandDefined(result)
      [] name = "lower_band" -> BandDefined(result)
      [] name = "peak" -> cummax(result.close)
      [] name = "drawdown" ->
           SMulK(SAddK(SDiv(result.close, result.peak), Num(0 - 1)),
                 Num(100))
      [] name = "rsi" -> Rsi(result)

\* result after the first k assignments
RECURSIVE Assigned(_, _)
Assigned(result, k) ==
    IF k = 0 THEN result
    ELSE LET prev == Assigned(result, k - 1)
         IN  SetCol(prev, DerivedColumns[k],
                    ColumnValue(DerivedColumns[k], prev))

WithMetrics(r0) == Assigned(r0, Len(DerivedColumns))

\* a bug: result = df, the columns added to the caller's frame
ArgAliased(df, result) == result

\* result = df.copy(): the returned frame is a new object, so the caller's
\* frame after the call is the frame it passed
ArgAfterCall(df, result) == df

\* ret: what the call returns or raises; arg: the caller's df afterwards
calculate_metrics(df) ==
    IF ~HasColumn(df, "close")
    THEN [ret |-> Raise("KeyError"), arg |-> df]
    ELSE LET result == WithMetrics(df)
         IN  [ret |-> Return(result), arg |-> ArgAfterCall(df, result)]

(* ------------------ analysis.generate_summary_statistics -------------- *)
\* Timestamp.strftime('%Y-%m-%d'): the calendar day a timestamp falls on
strftime(ts) == ts \div TicksPerDay

\* Timedelta.days of (a - b): whole days, rounded towards minus infinity
DaysBetween(a, b) == (a - b) \div TicksPerDay

Defined(s) == {t \in Rows(s) : ~IsNaN(s[t])}

\* Series.max() / Series.min(), skipna=True
SeriesMax(s) ==
    IF Defined(s) = {} THEN NaN
    ELSE s[CHOOSE t \in Defined(s) : \A u \in Defined(s) : FLe(s[u], s[t])]

SeriesMin(s) ==
    IF Defined(s) = {} THEN NaN
    ELSE s[CHOOSE t \in Defined(s) : \A u \in Defined(s) : FLe(s[t], s[u])]

\* Series.idxmax() / Series.idxmin(): the first row holding the extreme
idxmax(s) ==
    CHOOSE t \in Defined(s) :
        /\ s[t] = SeriesMax(s)
        /\ \A u \in Defined(s) : s[u] = SeriesMax(s) => t <= u

idxmin(s) ==
    CHOOSE t \in Defined(s) :
        /\ s[t] = SeriesMin(s)
        /\ \A u \in Defined(s) : s[u] = SeriesMin(s) => t <= u

\* (df['daily_return'] > 0).mean(): the mean of a boolean Series, one
\* cell per row; the comparison is False on a NaN cell
PositiveMean(s) ==
    Frac(Cardinality({t \in Rows(s) : FGt(s[t], Num(0))}), Len(s))

\* a bug: the number of rows taken for the elapsed days
ElapsedRows(df) == Len(df.index)

\* line 78
ElapsedDays(df) == DaysBetween(df.index[Len(df.index)], df.index[1])

\* Series.std() is a square root and so is x ** y: the report carries
\* the annualized return as its base and exponent, and the volatility
\* figures (and the Sharpe ratio they divide) as whether std() is defined,
\* which it is from two defined returns on
generate_summary_statistics(df) ==
    LET n == Len(df.index)
        start_price == df.close[1]
        end_price == df.close[n]
        total_return == FMul(FSub(FDiv(end_price, start_price), Num(1)),
                             Num(100))
        days == ElapsedDays(df)
        std_defined == Cardinality(Defined(df.daily_return)) >= 2
    IN  IF days = 0 THEN Raise("ZeroDivisionError")
        \* lines 94 and 96: with no defined return idxmax() names no row
        \* and the lookup of its result raises
        ELSE IF Defined(df.daily_return) = {} THEN Raise("KeyError")
        ELSE Return(
          [start_date |-> strftime(df.index[1]),
           end_date |-> strftime(df.index[n]),
           start_price |-> start_price,
           end_price |-> end_price,
           total_return_pct |-> total_return,
           annualized_return_pct |->
               [base |-> FAdd(Num(1), FDiv(total_return, Num(100))),
                exponent |-> Frac(DAYS_PER_YEAR, days)],
           daily_volatility_pct |-> std_defined,
           annualized_volatility_pct |-> std_defined,
           sharpe_ratio |-> std_defined,
           max_drawdown_pct |-> SeriesMin(df.drawdown),
           best_day_pct |-> SeriesMax(df.daily_return),
           best_day_date |-> strftime(df.index[idxmax(df.daily_return)]),
           worst_day_pct |-> SeriesMin(df.daily_return),
           worst_day_date |-> strftime(df.index[idxmin(df.daily_return)]),
           positive_days_pct |-> FMul(PositiveMean(df.daily_return),
                                      Num(100))])

(* ------------------------ data.get_historical_data -------------------- *)
\* the keys of a candle of the price-history response, in its order
CandleKeys == <<"open", "high", "low", "close", "volume", "datetime">>

\* lines 39-51: the frame of the candles, indexed by their timestamps,
\* without the datetime column; no candle, so no datetime column, raises.
\* pd.to_datetime(unit='ms') gives the timestamp of the instant an epoch
\* count denotes; the model counts both in ticks since the epoch.
get_historical_data(resp) ==
    IF ~resp.ok THEN Raise("ClientError")
    ELSE LET candles == resp.candles
             keys == SelectSeq(CandleKeys,
                               LAMBDA k : Len(candles) > 0
                                          /\ k \in DOMAIN candles[1])
             cols == SelectSeq(keys, LAMBDA k : k # "datetime")
             names == {cols[i] : i \in 1..Len(cols)}
         IN  IF Len(SelectSeq(keys, LAMBDA k : k = "datetime")) = 0
             THEN Raise("KeyError")
             ELSE Return(
               [f \in {"columns", "index"} \cup names |->
                 IF f = "columns" THEN cols
                 ELSE IF f = "index"
                      THEN [t \in 1..Len(candles) |-> candles[t].datetime]
                 ELSE [t \in 1..Len(candles) |-> Num(candles[t][f])]])

(* ----------------- what the price-history API may answer -------------- *)
Prices == 1..MaxPrice

\* ticks from one candle of a list to the next: out of order, the same
\* instant, later the same day, the next day
Gaps == {0 - 1, 0, 1, TicksPerDay}

Max2(a, b) == IF a >= b THEN a ELSE b
Min2(a, b) == IF a <= b THEN a ELSE b

\* the candle of row t: it opens at the close before it
Candle(closes, t, ts) ==
    LET c == closes[t]
        o == IF t = 1 THEN c ELSE closes[t - 1]
    IN  [open |-> o, high |-> Max2(o, c), low |-> Min2(o, c), close |-> c,
         volume |-> t, datetime |-> ts]

WithoutClose(cn) ==
    [open |-> cn.open, high |-> cn.high, low |-> cn.low,
     volume |-> cn.volume, datetime |-> cn.datetime]

ShortCandles ==
    UNION {
      { [t \in 1..n |-> Candle(closes, t, MaxLen + (t - 1) * gap)] :
          closes \in [1..n -> Prices], gap \in Gaps } :
      n \in 0..MaxLen }

\* a year of daily candles is longer than every window
LongLens == {RSI_WINDOW + 1, MA_200 + 1}

LongCandles ==
    UNION {
      { [t \in 1..n |->
            Candle([u \in 1..n |-> pat[((u - 1) % Len(pat)) + 1]], t,
                   (t - 1) * TicksPerDay)] :
          pat \in [1..PatLen -> {1, MaxPrice}] } :
      n \in LongLens }

NoCloseCandles ==
    { [t \in 1..Len(cs) |-> WithoutClose(cs[t])] :
        cs \in {c \in ShortCandles :
                  Len(c) > 0 /\ \A t \in 1..Len(c) : c[t].close = 1} }

Responses ==
    {[ok |-> FALSE, candles |-> <<>>]}
    \cup {[ok |-> TRUE, candles |-> c] :
            c \in ShortCandles \cup LongCandles \cup NoCloseCandles}

(* ------------------------------ main ---------------------------------- *)
VARIABLES
    pc,             \* where main stands
    credentials,    \* main's locals, "none" before they are assigned
    client,
    response,       \* the answer of client.get_price_history
    raw_data,
    enhanced_data,
    summary,        \* plot_performance's local
    chart,          \* the file at args.output_chart
    csv,            \* the file at args.output_data
    exc,            \* the exception in flight, FALSE .. not raised
    stdout,         \* what was printed, in order
    calls           \* the steps main has called, in order

vars == <<pc, credentials, client, response, raw_data, enhanced_data,
          summary, chart, csv, exc, stdout, calls>>

None == [none |-> TRUE]
NoExc == "none"

\* the steps of main's try block, lines 74-90
Steps == <<"load_credentials", "initialize_client", "get_historical_data",
           "calculate_metrics", "plot_performance", "to_csv">>

\* where main goes when a step returns: the statement after it
AfterReturn(step) ==
    CASE step = "load_credentials" -> "initialize_client"
      [] step = "initialize_client" -> "get_historical_data"
      [] step = "get_historical_data" -> "calculate_metrics"
      [] step = "calculate_metrics" -> "plot_performance"
      [] step = "plot_performance" -> "to_csv"
      [] step = "to_csv" -> "done"

\* a bug: the exception swallowed, main going on with the next statement
AfterRaiseContinue(step) == AfterReturn(step)

\* where main goes when a step raises: the except clause of line 95
AfterRaise(step) == "except"

Init ==
    /\ pc = "load_credentials"
    /\ credentials = "none"
    /\ client = "none"
    /\ response = None
    /\ raw_data = None
    /\ enhanced_data = None
    /\ summary = None
    /\ chart = None
    /\ csv = None
    /\ exc = NoExc
    /\ stdout = <<"Analyzing">>
    /\ calls = <<>>

\* the step returns
Returns(step, out) ==
    /\ pc' = AfterReturn(step)
    /\ exc' = NoExc
    /\ stdout' = stdout \o out

\* the step raises e, having printed out
Raises(step, e, out) ==
    /\ pc' = AfterRaise(step)
    /\ exc' = e
    /\ stdout' = stdout \o out

\* line 74; auth.load_credentials raises when a variable is not set
LoadCredentials ==
    /\ pc = "load_credentials"
    /\ calls' = Append(calls, "load_credentials")
    /\ \E env_set \in BOOLEAN :
         IF env_set
         THEN /\ credentials' = "loaded"
              /\ Returns("load_credentials", <<>>)
         ELSE /\ credentials' = credentials
              /\ Raises("load_credentials", "ValueError", <<>>)
    /\ UNCHANGED <<client, response, raw_data, enhanced_data, summary,
                   chart, csv>>

\* line 75; auth.initialize_client prints and re-raises what easy_client
\* raises
InitializeClient ==
    /\ pc = "initialize_client"
    /\ calls' = Append(calls, "initialize_client")
    /\ \E authenticated \in BOOLEAN :
         IF authenticated
         THEN /\ client' = "ready"
              /\ Returns("initialize_client", <<>>)
         ELSE /\ client' = client
              /\ Raises("initialize_client", "AuthError",
                        <<"Exception when authenticating">>)
    /\ UNCHANGED <<credentials, response, raw_data, enhanced_data, summary,
                   chart, csv>>

\* lines 78-79
GetHistoricalData ==
    /\ pc = "get_historical_data"
    /\ calls' = Append(calls, "get_historical_data")
    /\ \E resp \in Responses :
         LET r == get_historical_data(resp)
         IN  /\ response' = resp
             /\ IF r.ok
                THEN /\ raw_data' = r.value
                     /\ Returns("get_historical_data",
                                <<"Retrieving historical data">>)
                ELSE /\ raw_data' = raw_data
                     /\ Raises("get_historical_data", r.error,
                               <<"Retrieving historical data",
                                 "Exception when retrieving historical data">>)
    /\ UNCHANGED <<credentials, client, enhanced_data, summary, chart, csv>>

\* lines 82-83
CalculateMetrics ==
    /\ pc = "calculate_metrics"
    /\ calls' = Append(calls, "calculate_metrics")
    /\ LET r == calculate_metrics(raw_data)
       IN  /\ raw_data' = r.arg
           /\ IF r.ret.ok
              THEN /\ enhanced_data' = r.ret.value
                   /\ Returns("calculate_metrics",
                              <<"Calculating performance metrics">>)
              ELSE /\ enhanced_data' = enhanced_data
                   /\ Raises("calculate_metrics", r.ret.error,
                             <<"Calculating performance metrics">>)
    /\ UNCHANGED <<credentials, client, response, summary, chart, csv>>

\* lines 86-87; visualization.plot_performance computes the summary
\* first, draws, and saves the figure, which the file system may refuse
PlotPerformance ==
    /\ pc = "plot_performance"
    /\ calls' = Append(calls, "plot_performance")
    /\ LET r == generate_summary_statistics(enhanced_data)
       IN  IF ~r.ok
           THEN /\ UNCHANGED <<summary, chart>>
                /\ Raises("plot_performance", r.error,
                          <<"Generating performance visualization">>)
           ELSE /\ summary' = r.value
                /\ \E saved \in BOOLEAN :
                     IF saved
                     THEN /\ chart' = enhanced_data
                          /\ Returns("plot_performance",
                                     <<"Generating performance visualization",
                                       "Plot saved">>)
                     ELSE /\ chart' = chart
                          /\ Raises("plot_performance", "OSError",
                                    <<"Generating performance visualization">>)
    /\ UNCHANGED <<credentials, client, response, raw_data, enhanced_data,
                   csv>>

\* lines 90-93
ToCsv ==
    /\ pc = "to_csv"
    /\ calls' = Append(calls, "to_csv")
    /\ \E written \in BOOLEAN :
         IF written
         THEN /\ csv' = enhanced_data
              /\ Returns("to_csv", <<"Data saved", "Analysis complete">>)
         ELSE /\ csv' = csv
              /\ Raises("to_csv", "OSError", <<>>)
    /\ UNCHANGED <<credentials, client, response, raw_data, enhanced_data,
                   summary, chart>>

\* lines 95-97: print the exception and raise it again
ExceptHandler ==
    /\ pc = "except"
    /\ stdout' = Append(stdout, "Error")
    /\ pc' = "raised"
    /\ UNCHANGED <<credentials, client, response, raw_data, enhanced_data,
                   summary, chart, csv, exc, calls>>

Next ==
    \/ LoadCredentials
    \/ InitializeClient
    \/ GetHistoricalData
    \/ CalculateMetrics
    \/ PlotPerformance
    \/ ToCsv
    \/ ExceptHandler

Spec == Init /\ [][Next]_vars

(* ====================== properties of the program ===================== *)
\* calculate_metrics was called / has returned a frame
CalledMetrics == Len(calls) >= 4
CalledPlot == Len(calls) >= 5
HasMetrics == enhanced_data # None

StrictlyAscending(idx) == \A t \in 2..Len(idx) : idx[t - 1] < idx[t]

Pct(a, b) == FMul(FSub(FDiv(a, b), Num(1)), Num(100))

(* C1: calculate_metrics raises, and returns no frame, whenever its input
   lacks the close column or its index is not strictly ascending (out of
   order, or a date twice). *)
C1_FailsFastOnBadInput ==
    (CalledMetrics
       /\ (~HasColumn(raw_data, "close")
             \/ ~StrictlyAscending(raw_data.index)))
    => (~HasMetrics /\ exc # NoExc)

(* C2, as claimed: in every row, row 0 included, cumulative_return_pct is
   the return from the first close to the row's close. *)
C2_CumulativeReturnEveryRow ==
    HasMetrics =>
      \A t \in Rows(enhanced_data.close) :
        enhanced_data.cumulative_return_pct[t]
          = Pct(enhanced_data.close[t], enhanced_data.close[1])

(* C2, amended: cumulative_return_pct is undefined in row 0, and in every
   later row it is the return from the first close to the row's close. *)
C2_CumulativeReturnAfterRow0 ==
    HasMetrics =>
      \A t \in Rows(enhanced_data.close) :
        IF t = 1
        THEN /\ IsNaN(enhanced_data.cumulative_return_pct[t])
             /\ IsNaN(enhanced_data.cumulative_return[t])
        ELSE /\ enhanced_data.cumulative_return_pct[t]
                  = Pct(enhanced_data.close[t], enhanced_data.close[1])
             /\ enhanced_data.cumulative_return[t]
                  = FSub(FDiv(enhanced_data.close[t],
                              enhanced_data.close[1]), Num(1))

C2_Witness ==
    /\ HasMetrics
    /\ Len(enhanced_data.close) > RSI_WINDOW
    /\ \E t \in Rows(enhanced_data.close) :
         FGt(enhanced_data.cumulative_return_pct[t], Num(0))

(* C3: positive_days_pct is 100 times the number of rows with a defined,
   strictly positive daily_return over the number of rows with a defined
   daily_return (stated for the frames whose index is strictly
   ascending). *)
C3_PositiveDaysOfDefined ==
    (summary # None /\ StrictlyAscending(enhanced_data.index)) =>
      LET dr == enhanced_data.daily_return
          defined == {t \in Rows(dr) : ~IsNaN(dr[t])}
          positive == {t \in defined : FGt(dr[t], Num(0))}
      IN  summary.positive_days_pct
            = FMul(Frac(Cardinality(positive), Cardinality(defined)),
                   Num(100))

\* the closes are whole numbers: the sum of those of rows lo..hi
RECURSIVE CloseSum(_, _, _)
CloseSum(close, lo, hi) ==
    IF lo > hi THEN 0
    ELSE IF lo = hi THEN close[lo][1]
    ELSE CloseSum(close, lo, (lo + hi) \div 2)
           + CloseSum(close, (lo + hi) \div 2 + 1, hi)

MaColumns == {<<"ma_20", MA_20>>, <<"ma_50", MA_50>>, <<"ma_200", MA_200>>}

(* C4: for N in {20, 50, 200}, ma_N is undefined in row t exactly when
   t < N-1 and is otherwise the mean of the N closes ending at row t;
   close, peak and drawdown are defined in every row; a frame with a close
   column never makes calculate_metrics raise, however short it is. *)
C4_MovingAverages ==
    /\ (CalledMetrics /\ HasColumn(raw_data, "close")) => HasMetrics
    /\ HasMetrics =>
         \A t \in Rows(enhanced_data.close) :
           /\ \A m \in MaColumns :
                LET ma == enhanced_data[m[1]][t]
                    N == m[2]
                IN  /\ IsNaN(ma) <=> t < N
                    /\ t >= N =>
                         ma = Frac(CloseSum(enhanced_data.close,
                                            t - N + 1, t), N)
           /\ IsFinite(enhanced_data.close[t])
           /\ IsFinite(enhanced_data.peak[t])
           /\ IsFinite(enhanced_data.drawdown[t])

C4_Witness ==
    /\ HasMetrics
    /\ Len(enhanced_data.close) > MA_200
    /\ IsNaN(enhanced_data.ma_200[MA_200 - 1])
    /\ IsFinite(enhanced_data.ma_200[MA_200])
    /\ enhanced_data.ma_20[MA_20] # enhanced_data.ma_20[MA_20 + 1]

(* C5: peak is the greatest close so far and never falls; drawdown is
   defined in every row, never positive, and zero exactly where the close
   is the peak; on strictly increasing closes the peak is the close and
   the drawdown is zero throughout. *)
C5_PeakAndDrawdown ==
    HasMetrics =>
      LET close == enhanced_data.close
          peak == enhanced_data.peak
          dd == enhanced_data.drawdown
      IN  /\ \A t \in Rows(close) :
               /\ \E u \in 1..t : peak[t] = close[u]
               /\ \A u \in 1..t : FLe(close[u], peak[t])
               /\ t > 1 => FLe(peak[t - 1], peak[t])
               /\ IsFinite(dd[t])
               /\ FLe(dd[t], Num(0))
               /\ dd[t] = Num(0) <=> close[t] = peak[t]
               /\ dd[t] = Pct(close[t], peak[t])
          /\ (\A t \in 2..Len(close) : FLt(close[t - 1], close[t]))
               => \A t \in Rows(close) :
                    peak[t] = close[t] /\ dd[t] = Num(0)

C5_Witness ==
    /\ HasMetrics
    /\ \E t \in Rows(enhanced_data.close) :
         /\ t > 2
         /\ FLt(enhanced_data.close[1], enhanced_data.close[2])
         /\ FLt(enhanced_data.drawdown[t], Num(0))
         /\ FLt(enhanced_data.close[t], enhanced_data.peak[t])
         /\ FLt(enhanced_data.peak[1], enhanced_data.peak[t])

(* C6: in every row where the 14-row average loss is defined and
   positive, rsi is defined and lies in [0, 100]. *)
C6_RsiBounded ==
    HasMetrics =>
      \A t \in Rows(enhanced_data.close) :
        LET avg_loss == AvgLoss(enhanced_data)[t]
        IN  (IsFinite(avg_loss) /\ FGt(avg_loss, Num(0)))
              => /\ IsFinite(enhanced_data.rsi[t])
                 /\ FLe(Num(0), enhanced_data.rsi[t])
                 /\ FLe(enhanced_data.rsi[t], Num(100))

C6_Witness ==
    /\ HasMetrics
    /\ \E t \in Rows(enhanced_data.close) :
         /\ FGt(AvgLoss(enhanced_data)[t], Num(0))
         /\ FGt(AvgGain(enhanced_data)[t], Num(0))
         /\ FLt(Num(0), enhanced_data.rsi[t])
         /\ FLt(enhanced_data.rsi[t], Num(100))

(* C7: when the first and last index entries are zero calendar days apart,
   as in every one-row frame, generate_summary_statistics raises at the
   annualized return and no report (and so no chart) is produced;
   otherwise the exponent of the annualized return is 365 over the
   calendar days between the first and last index entries. *)
C7_AnnualizedReturnSpan ==
    CalledPlot =>
      LET idx == enhanced_data.index
          span == (idx[Len(idx)] - idx[1]) \div TicksPerDay
      IN  /\ Len(idx) = 1 => span = 0
          /\ span = 0 =>
               /\ summary = None
               /\ chart = None
               /\ exc = "ZeroDivisionError"
               /\ pc \in {"except", "raised"}
          /\ span # 0 =>
               /\ summary # None
               /\ summary.annualized_return_pct.exponent
                    = Frac(DAYS_PER_YEAR, span)

C7_Witness ==
    /\ CalledPlot
    /\ Len(enhanced_data.index) = 1
    /\ exc = "ZeroDivisionError"
    /\ summary = None

IsPrefix(a, b) == Len(a) <= Len(b) /\ \A i \in 1..Len(a) : a[i] = b[i]

\* what each step leaves behind when it returns
StepDone(i) ==
    CASE i = 1 -> credentials # "none"
      [] i = 2 -> client # "none"
      [] i = 3 -> raw_data # None
      [] i = 4 -> enhanced_data # None
      [] i = 5 -> chart # None
      [] i = 6 -> csv # None

C8_State ==
    /\ IsPrefix(calls, Steps)
    /\ \A i \in 1..Len(Steps) :
         /\ StepDone(i) => (Len(calls) >= i /\ \A j \in 1..i : StepDone(j))
         /\ (i < Len(calls) \/ pc = "done") => StepDone(i)
    /\ pc \in {"except", "raised"} <=> exc # NoExc
    /\ pc \in {"except", "raised"} => ~StepDone(Len(calls))
    /\ pc = "raised" => stdout[Len(stdout)] = "Error"
    /\ pc = "done" => calls = Steps
    /\ csv # None => (raw_data # None /\ enhanced_data # None
                        /\ summary # None /\ chart # None)

(* C8: one run calls the steps load credentials, initialize client, fetch,
   calculate_metrics, render, write CSV at most once each and in that
   order; once a step has raised no step is called again, the exception is
   printed and raised to the caller; the CSV exists only when fetch,
   compute and render have all returned. *)
C8_OnePassNoRetry ==
    /\ []C8_State
    /\ [][/\ exc # NoExc => (calls' = calls /\ exc' = exc
                               /\ pc' = "raised" /\ csv' = csv
                               /\ chart' = chart)
          /\ pc = "raised" => FALSE
          /\ Len(calls') <= Len(calls) + 1]_vars

C8_Witness ==
    /\ pc = "raised"
    /\ calls = SubSeq(Steps, 1, 5)
    /\ enhanced_data # None
    /\ csv = None

(* C9: calculate_metrics leaves the caller's frame as it was fetched and
   returns a frame with the same index, the input columns with their
   values, and the twelve derived columns after them, one cell per row. *)
C9_InputUntouched ==
    HasMetrics =>
      /\ raw_data = get_historical_data(response).value
      /\ enhanced_data.index = raw_data.index
      /\ enhanced_data.columns = raw_data.columns \o DerivedColumns
      /\ DOMAIN enhanced_data
           = DOMAIN raw_data
               \cup {DerivedColumns[i] : i \in 1..Len(DerivedColumns)}
      /\ \A i \in 1..Len(raw_data.columns) :
           enhanced_data[raw_data.columns[i]] = raw_data[raw_data.columns[i]]
      /\ \A i \in 1..Len(enhanced_data.columns) :
           Len(enhanced_data[enhanced_data.columns[i]])
             = Len(raw_data.index)

C9_Witness ==
    /\ HasMetrics
    /\ Len(raw_data.index) = MaxLen
    /\ Len(raw_data.columns) = 5
    /\ Len(enhanced_data.columns) = 17

(* C10: gain and loss are undefined in row 0 and are max(delta, 0) and
   max(-delta, 0) in every later row; rsi is undefined in every row
   t < 14, row 0 contributing to no average (stated for the frames that
   have a row 14 and whose close moves before it, where rsi shows the
   difference). *)
C10_RsiNeedsFourteenDeltas ==
    (/\ HasMetrics
     /\ Len(enhanced_data.close) > RSI_WINDOW
     /\ \E t \in 2..RSI_WINDOW :
          enhanced_data.close[t] # enhanced_data.close[t - 1]) =>
      LET close == enhanced_data.close
          gain == Gain(enhanced_data)
          loss == Loss(enhanced_data)
      IN  /\ IsNaN(gain[1]) /\ IsNaN(loss[1])
          /\ \A t \in 2..Len(close) :
               LET delta == FSub(close[t], close[t - 1])
               IN  /\ gain[t] = (IF FGt(delta, Num(0)) THEN delta ELSE Num(0))
                   /\ loss[t] = (IF FLt(delta, Num(0)) THEN FNeg(delta)
                                 ELSE Num(0))
          /\ \A t \in Rows(close) :
               t <= RSI_WINDOW => IsNaN(enhanced_data.rsi[t])

====
